---- MODULE Spec2Model ----
(***************************************************************************)
(* Planetary-hours calculator (ircando-source/planetary-hours-app).        *)
(*                                                                         *)
(* The repository holds two revisions of the core:                         *)
(*   "noaa"   src/unnamed/part_000        NOAA sun times, night length     *)
(*                                        from the adjacent day            *)
(*   "coarse" src/frontend/app/index.tsx  clamped cosine approximation,    *)
(*            (and src/unnamed/part_001)  night length = 24h - day length  *)
(*                                                                         *)
(* Instants are JavaScript time values in milliseconds, counted from the   *)
(* local midnight that begins day 0 of a window of NumDays calendar days.  *)
(* JavaScript numbers that are not finite are the values NaN, PosInf and   *)
(* NegInf; an Invalid Date is a Date whose time value is NaN.              *)
(*                                                                         *)
(* The trigonometric series of the engine (declination, equation of time)  *)
(* are inputs of the model: for every calendar day the argument of the     *)
(* arccosine (in millionths) and the equation of time (in quarter minutes) *)
(* are drawn from bounded sets.  Everything after them (the arccosine and  *)
(* its domain, the clamp, solar noon, rounding to whole minutes, Date      *)
(* construction, and the whole resolver) is computed as the code does.     *)
(*                                                                         *)
(* Arithmetic on numbers is written as functions on Int, so that an        *)
(* argument is a value when the function is applied.                       *)
(***************************************************************************)
EXTENDS Integers, Sequences, FiniteSets, TLC

VARIABLES revision, latProfile, longitude, timezoneOffset, eqDrift, dow0,
          now, planetaryHour, lastStep

screenVars ==
  <<revision, latProfile, longitude, timezoneOffset, eqDrift, dow0,
    now, planetaryHour, lastStep>>

\* The calendar fields of a Date object (getFullYear, getMonth, getDate) and
\* the Julian Day number getJulianDay gives for it.
VARIABLES calendar, julianDay

dateVars == <<calendar, julianDay>>

\* The life of PlanetaryHoursScreen: whether it is mounted, the intervals
\* that setInterval created and clearInterval has not cleared (each with the
\* location and prevPlanet its callback closed over), and the prevPlanet
\* state.
VARIABLES mounted, intervals, prevPlanet

timerVars == <<mounted, intervals, prevPlanet>>

NoTimer ==
  /\ mounted = FALSE
  /\ intervals = <<>>
  /\ prevPlanet = "none"

\* The handlers of PlanetaryHoursApp in flight.  pending holds, in the order
\* they were issued, the AsyncStorage operations that have not completed,
\* each with what its handler does when it resumes; dialog is the alert of
\* handleDeleteLocation while it is open, with the values its onPress
\* closed over; requested is the set of locations handleAddLocation was
\* called with and no confirmed deletion has named since.
VARIABLES pending, dialog, requested

asyncVars == <<pending, dialog, requested>>

NoAsync ==
  /\ pending = <<>>
  /\ dialog = <<>>
  /\ requested = {}

\* What the reads of loadData meet at launch: "none" (both resolve and the
\* texts parse), "rejected" (a getItem rejects), "list invalid" and "current
\* invalid" (the text under the key is not valid JSON).
VARIABLES fault

faultVars == <<fault>>

NoFault == fault = "none"

\* One invocation of handleGPSLocation of the add-location screen: its
\* position (gpsPc: "idle" before the first one; "permission", "position",
\* "geocode", "store" while it awaits; "denied", "failed", "succeeded" once it
\* has ended), the loading flag of the screen, the locals position and name,
\* how reverseGeocodeAsync settled, and the number of calls of
\* onLocationAdded or onLocationSet it has made.
VARIABLES gpsPc, gpsLoading, gpsPosition, gpsName, gpsGeocode, gpsReports

gpsVars ==
  <<gpsPc, gpsLoading, gpsPosition, gpsName, gpsGeocode, gpsReports>>

NoGps ==
  /\ gpsPc = "idle"
  /\ gpsLoading = FALSE
  /\ gpsPosition = <<>>
  /\ gpsName = ""
  /\ gpsGeocode = "none"
  /\ gpsReports = 0

\* One activation of getGeomMeanLongSun: its local L0, in thousandths of a
\* degree, and its position.
VARIABLES L0, loopPc

loopVars == <<L0, loopPc>>

NoLoop ==
  /\ L0 = 0
  /\ loopPc = "idle"

\* One activation of calculateSunTimes, statement by statement: the Date
\* objects it reaches (heap), its locals (frame: references into the heap
\* and the two minute counts) and its position (pc).
VARIABLES heap, frame, pc

callVars == <<heap, frame, pc>>

NoCall ==
  /\ heap = <<>>
  /\ frame = [date |-> 0, sunrise |-> 0, sunset |-> 0,
              sunriseMinutes |-> 0, sunsetMinutes |-> 0]
  /\ pc = "idle"

(***************************************************************************)
(* JavaScript number semantics                                             *)
(***************************************************************************)
NaN == 2000000001
PosInf == 2000000002
NegInf == 0 - 2000000002

IsFinite[x \in Int] == x # NaN /\ x # PosInf /\ x # NegInf

Sign[x \in Int] == IF x > 0 THEN 1 ELSE IF x < 0 THEN 0 - 1 ELSE 0

Abs[x \in Int] == IF x < 0 THEN 0 - x ELSE x

\* floor(a / b) for finite a and finite b # 0
FloorQuot[a \in Int, b \in Int] ==
  LET q == Abs[a] \div Abs[b]
      exact == (Abs[a] % Abs[b]) = 0
  IN IF Sign[a] * Sign[b] >= 0 THEN q
     ELSE IF exact THEN 0 - q ELSE 0 - q - 1

JsAdd[a \in Int, b \in Int] ==
  IF a = NaN \/ b = NaN THEN NaN
  ELSE IF a = PosInf THEN (IF b = NegInf THEN NaN ELSE PosInf)
  ELSE IF a = NegInf THEN (IF b = PosInf THEN NaN ELSE NegInf)
  ELSE IF ~IsFinite[b] THEN b
  ELSE a + b

JsNeg[a \in Int] ==
  IF a = NaN THEN NaN
  ELSE IF a = PosInf THEN NegInf
  ELSE IF a = NegInf THEN PosInf
  ELSE 0 - a

JsSub[a \in Int, b \in Int] == JsAdd[a, JsNeg[b]]

JsMul[a \in Int, b \in Int] ==
  IF a = NaN \/ b = NaN THEN NaN
  ELSE IF IsFinite[a] /\ IsFinite[b] THEN a * b
  ELSE IF a = 0 \/ b = 0 THEN NaN
  ELSE IF Sign[a] * Sign[b] > 0 THEN PosInf ELSE NegInf

\* Math.floor(a / b); a and b are finite or NaN at every call site
JsFloorDiv[a \in Int, b \in Int] ==
  IF ~IsFinite[a] \/ ~IsFinite[b] THEN NaN
  ELSE IF b = 0 THEN (IF a = 0 THEN NaN ELSE IF a > 0 THEN PosInf ELSE NegInf)
  ELSE FloorQuot[a, b]

\* a % b of JavaScript: the result has the sign of the dividend
JsMod[a \in Int, b \in Int] ==
  IF ~IsFinite[a] \/ ~IsFinite[b] \/ b = 0 THEN NaN
  ELSE Sign[a] * (Abs[a] % Abs[b])

JsMin[a \in Int, b \in Int] ==
  IF a = NaN \/ b = NaN THEN NaN ELSE IF a < b THEN a ELSE b

JsGe[a \in Int, b \in Int] == a # NaN /\ b # NaN /\ a >= b
JsLt[a \in Int, b \in Int] == a # NaN /\ b # NaN /\ a < b
JsGt[a \in Int, b \in Int] == a # NaN /\ b # NaN /\ a > b

\* new Date(v): an infinite time value gives an Invalid Date
NewDate[v \in Int] == IF IsFinite[v] THEN v ELSE NaN

\* arr[i] of an array (0-based); anything but an index of it is undefined
ArrayAt[arr \in Seq(STRING), i \in Int] ==
  IF IsFinite[i] /\ i >= 0 /\ i < Len(arr) THEN arr[i + 1] ELSE "undefined"

(***************************************************************************)
(* Bounds of the model                                                     *)
(***************************************************************************)
\* calendar days of the window; `now` stays in days 1 .. NumDays - 2 so that
\* yesterday and tomorrow are days of the window
NumDays == 4

\* instants offered to the clock per calendar day (a grid of the day)
GridPerDay == 4

(***************************************************************************)
(* Program constants                                                       *)
(***************************************************************************)
MS_PER_MINUTE == 60000
MS_PER_DAY == 86400000

PLANETARY_SEQUENCE ==
  <<"saturn", "jupiter", "mars", "sun", "venus", "mercury", "moon">>

DAY_RULERS ==
  [d \in 0..6 |->
     <<"sun", "moon", "mars", "mercury", "jupiter", "venus", "saturn">>[d + 1]]

\* arr.indexOf(p)
IndexOf[arr \in Seq(STRING), p \in STRING] ==
  IF \E i \in 1..Len(arr) : arr[i] = p
  THEN (CHOOSE i \in 1..Len(arr) : arr[i] = p) - 1
  ELSE 0 - 1

(***************************************************************************)
(* Inputs of the sun-time engine                                           *)
(***************************************************************************)
\* Arguments of the arccosine, in millionths, from polar night (> 1) through
\* the equinox (0) to polar day (< -1); a location and season is a position
\* in this list (latProfile[1]) that moves by latProfile[2] places per day.
AcosArgs ==
  <<1200000, 1000000, 999999, 500000, 0,
    0 - 500000, 0 - 999999, 0 - 1000000, 0 - 1200000>>

Longitudes == {0 - 180, 0, 90}
TimezoneOffsets == {0}
EqDrifts == {0, 1}
Trends == {0 - 1, 0, 1}

Clamp[lo \in Int, x \in Int, hi \in Int] ==
  IF x < lo THEN lo ELSE IF x > hi THEN hi ELSE x

\* the arccosine argument of calendar day d at the location and season of e
AcosArgOf(e, d) ==
  AcosArgs[Clamp[1, e.latProfile[1] + e.latProfile[2] * d, Len(AcosArgs)]]

\* the equation of time of calendar day d, in quarter minutes
EqTimeOf(e, d) == e.eqDrift * d

(***************************************************************************)
(* Dates                                                                   *)
(***************************************************************************)
\* the calendar day (index in the window) of an instant
DayOf[t \in Int] == FloorQuot[t, MS_PER_DAY]

\* d.setHours(0, 0, 0, 0)
Midnight[t \in Int] == DayOf[t] * MS_PER_DAY

\* Date.prototype.getDay
GetDay(e, t) == (e.dow0 + DayOf[t]) % 7

\* d.setDate(d.getDate() + k)
AddDays(t, k) == t + k * MS_PER_DAY

\* d.setMinutes(m) after setHours(0, 0, 0, 0); NaN gives an Invalid Date
SetMinutes[t \in Int, m \in Int] ==
  IF IsFinite[m] THEN Midnight[t] + m * MS_PER_MINUTE ELSE NaN

\* Math.round of a value given in quarters: floor(q / 4 + 1/2)
RoundQuarters[q \in Int] == IF IsFinite[q] THEN FloorQuot[q + 2, 4] ELSE NaN

\* the { sunrise, sunset } objects of calculateSunTimes
SunTimesObjects == [sunrise : Int, sunset : Int]

(***************************************************************************)
(* Calendar dates and the Julian Day number (src/unnamed/part_000)         *)
(***************************************************************************)

\* the years of the dates considered: century years that are and are not
\* leap years, a leap year, and the years next to them
Years == {1899, 1900, 1999, 2000, 2023, 2024, 2100, 2101}

IsLeapYear(year) ==
  (year % 4 = 0 /\ year % 100 # 0) \/ year % 400 = 0

\* days of the month with index m (0 = January) of the Gregorian calendar
DaysInMonth(year, m) ==
  CASE m = 1 -> IF IsLeapYear(year) THEN 29 ELSE 28
    [] m \in {3, 5, 8, 10} -> 30
    [] OTHER -> 31

\* the calendar fields after d.setDate(d.getDate() + 1)
SetDatePlusOne(c) ==
  IF c.date < DaysInMonth(c.fullYear, c.month)
  THEN [c EXCEPT !.date = c.date + 1]
  ELSE IF c.month < 11
  THEN [c EXCEPT !.month = c.month + 1, !.date = 1]
  ELSE [fullYear |-> c.fullYear + 1, month |-> 0, date |-> 1]

\* the calendar fields after d.setDate(d.getDate() - 1)
SetDateMinusOne(c) ==
  IF c.date > 1
  THEN [c EXCEPT !.date = c.date - 1]
  ELSE IF c.month > 0
  THEN [c EXCEPT !.month = c.month - 1,
                 !.date = DaysInMonth(c.fullYear, c.month - 1)]
  ELSE [fullYear |-> c.fullYear - 1, month |-> 11, date |-> 31]

\* getJulianDay without the century terms (the Julian calendar)
getJulianDay_noCentury(c) ==
  LET year == c.fullYear
      month == c.month + 1
      day == c.date
      A == FloorQuot[14 - month, 12]
      Y == year + 4800 - A
      M == month + 12 * A - 3
  IN day + FloorQuot[153 * M + 2, 5] + 365 * Y + FloorQuot[Y, 4] - 32045

\* getJulianDay(date)
getJulianDay(c) ==
  LET year == c.fullYear
      month == c.month + 1
      day == c.date
      A == FloorQuot[14 - month, 12]
      Y == year + 4800 - A
      M == month + 12 * A - 3
  IN day + FloorQuot[153 * M + 2, 5] + 365 * Y + FloorQuot[Y, 4]
       - FloorQuot[Y, 100] + FloorQuot[Y, 400] - 32045

\* the Date of the screen's first instant, as the other specifications keep it
NoDate ==
  /\ calendar = [fullYear |-> 2000, month |-> 0, date |-> 1]
  /\ julianDay = getJulianDay(calendar)

(***************************************************************************)
(* Sun-time engine, revision "noaa" (src/unnamed/part_000)                 *)
(***************************************************************************)
\* Math.acos of an argument in millionths, times 4 minutes per degree, in
\* quarter minutes (= sixteenths of a degree); NaN outside [-1, 1]
AcosQuarterMinutes[arg \in Int] ==
  IF arg > 1000000 \/ arg < 0 - 1000000 THEN NaN
  ELSE CASE arg = 1000000 -> 0
         [] arg = 999999 -> 1
         [] arg = 500000 -> 960
         [] arg = 0 -> 1440
         [] arg = 0 - 500000 -> 1920
         [] arg = 0 - 999999 -> 2879
         [] arg = 0 - 1000000 -> 2880

\* getHourAngleSunrise: no clamp, Math.acos returns NaN and does not throw
getHourAngleSunrise(arg) == AcosQuarterMinutes[arg]

\* calculateSunTimes(date, latitude, longitude) of part_000
calculateSunTimes(e, date) ==
  LET day == DayOf[date]
      arg == AcosArgOf(e, day)
      eqTime == EqTimeOf(e, day)
      hourAngle == getHourAngleSunrise(arg)
      solarNoonMinutes ==
        4 * (720 - 4 * e.longitude + e.timezoneOffset * 60) - eqTime
      sunriseMinutes == JsSub[solarNoonMinutes, hourAngle]
      sunsetMinutes == JsAdd[solarNoonMinutes, hourAngle]
      sunriseRounded == RoundQuarters[sunriseMinutes]
      sunsetRounded == RoundQuarters[sunsetMinutes]
  IN [sunrise |-> SetMinutes[date, sunriseRounded],
      sunset |-> SetMinutes[date, sunsetRounded]]

(***************************************************************************)
(* Sun-time engine, revision "coarse" (src/frontend/app/index.tsx)         *)
(***************************************************************************)
\* Math.max(-1, Math.min(1, cosHourAngle)) then Math.acos
ClampedHourAngle(arg) ==
  LET cosHourAngle == Clamp[0 - 1000000, arg, 1000000]
  IN AcosQuarterMinutes[cosHourAngle]

\* d.setHours(Math.floor(h), Math.round((h % 1) * 60), 0, 0) for h hours
\* given in quarter minutes: % keeps the sign of h
SetHoursFromLocal[date \in Int, hq \in Int] ==
  LET hours == FloorQuot[hq, 240]
      frac == JsMod[hq, 240]
      minutes == RoundQuarters[frac]
  IN Midnight[date] + hours * 60 * MS_PER_MINUTE + minutes * MS_PER_MINUTE

\* calculateSunTimes(date, latitude, longitude) of index.tsx
calculateSunTimes_index(e, date) ==
  LET day == DayOf[date]
      arg == AcosArgOf(e, day)
      hourAngle == ClampedHourAngle(arg)
      solarNoon == 4 * (720 - 4 * e.longitude)
      sunriseLocal == solarNoon - hourAngle + 4 * 60 * e.timezoneOffset
      sunsetLocal == solarNoon + hourAngle + 4 * 60 * e.timezoneOffset
  IN [sunrise |-> SetHoursFromLocal[date, sunriseLocal],
      sunset |-> SetHoursFromLocal[date, sunsetLocal]]

(***************************************************************************)
(* Planetary hour resolver, revision "noaa" (src/unnamed/part_000)         *)
(*                                                                         *)
(* The record returned carries the fields of the returned object; the      *)
(* fields after hourDuration are locals of the function, recorded so that  *)
(* properties can speak about them: bodyIndex (idx_final / hourIndex),     *)
(* rulerDay (zi_ast / effectiveDayOfWeek) and segment (the branch taken).  *)
(***************************************************************************)
\* x / 12 for a difference of two whole-minute instants: 60000 k / 12 is the
\* integer 5000 k, so the floating-point quotient is exact
DivBy12[x \in Int] == IF IsFinite[x] THEN FloorQuot[x, 12] ELSE NaN

\* the table with Monday as day 0
PLANET_ZI_mondayFirst ==
  [d \in 0..6 |->
     <<"moon", "mars", "mercury", "jupiter", "venus", "saturn", "sun">>[d + 1]]

PLANET_ZI ==
  [d \in 0..6 |->
     <<"sun", "moon", "mars", "mercury", "jupiter", "venus", "saturn">>[d + 1]]

ORDINE_PLANETE ==
  <<"saturn", "jupiter", "mars", "sun", "venus", "mercury", "moon">>

\* durata = (end - start) / 12
Durata(start, end) == DivBy12[JsSub[end, start]]

\* the index counted from one
HourIdx_fromOne(t, start, durata) ==
  JsMin[JsAdd[JsFloorDiv[JsSub[t, start], durata], 1], 11]

\* idx = Math.min(Math.floor((now - start) / durata), 11)
HourIdx(t, start, durata) == JsMin[JsFloorDiv[JsSub[t, start], durata], 11]

\* prox = new Date(start + durata * (idx + 1))
Prox(start, durata, idx) == NewDate[JsAdd[start, JsMul[durata, JsAdd[idx, 1]]]]

\* the three assignments every branch makes, for the segment from start to end
HourIn[t \in Int, start \in Int, end \in Int] ==
  LET durata == Durata(start, end)
      idx == HourIdx(t, start, durata)
  IN [durata |-> durata, idx |-> idx, prox |-> Prox(start, durata, idx)]

\* the locals after the branches: este_zi, (durata, idx, prox), zi_ast
Segments ==
  [este_zi : BOOLEAN, hour : [durata : Int, idx : Int, prox : Int],
   zi_ast : 0..6, segment : {"day", "afterSunset", "beforeSunrise"}]

\* lines 276-311: the branch taken and what it assigns
SegmentOf(e, t) ==
  LET todaySun == calculateSunTimes(e, t)
      rasarit == todaySun.sunrise
      apus == todaySun.sunset
  IN IF JsGe[t, rasarit] /\ JsLt[t, apus]
     THEN [este_zi |-> TRUE, hour |-> HourIn[t, rasarit, apus],
           zi_ast |-> GetDay(e, t), segment |-> "day"]
     ELSE IF JsGe[t, apus]
     THEN LET tomorrow == AddDays(t, 1)
              tomorrowSun == calculateSunTimes(e, tomorrow)
          IN [este_zi |-> FALSE, hour |-> HourIn[t, apus, tomorrowSun.sunrise],
              zi_ast |-> GetDay(e, t), segment |-> "afterSunset"]
     ELSE LET yesterday == AddDays(t, 0 - 1)
              yesterdaySun == calculateSunTimes(e, yesterday)
          IN [este_zi |-> FALSE, hour |-> HourIn[t, yesterdaySun.sunset, rasarit],
              zi_ast |-> GetDay(e, yesterday), segment |-> "beforeSunrise"]

\* the body index without the night offset
IdxFinal_noOffset(startIdx, idx, offsetNoapte) == JsMod[JsAdd[startIdx, idx], 7]

\* (startIdx + idx + offsetNoapte) % 7
IdxFinal(startIdx, idx, offsetNoapte) ==
  JsMod[JsAdd[JsAdd[startIdx, idx], offsetNoapte], 7]

\* arr[(i + 1) % 7]
NextOf(arr, i) == ArrayAt[arr, JsMod[JsAdd[i, 1], 7]]

\* lines 313-348: the body index and the returned object
HourOfSegment[t \in Int, todaySun \in SunTimesObjects, seg \in Segments] ==
  LET prox == seg.hour.prox
      idx == seg.hour.idx
      planetaZilei == PLANET_ZI[seg.zi_ast]
      startIdx == IndexOf[ORDINE_PLANETE, planetaZilei]
      offsetNoapte == IF seg.este_zi THEN 0 ELSE 12
      idx_final == IdxFinal(startIdx, idx, offsetNoapte)
  IN [currentPlanet |-> ArrayAt[ORDINE_PLANETE, idx_final],
      nextPlanet |-> NextOf(ORDINE_PLANETE, idx_final),
      hourNumber |-> JsAdd[idx, 1],
      isDay |-> seg.este_zi,
      nextHourTime |-> prox,
      timeUntilNext |-> JsSub[prox, t],
      sunrise |-> todaySun.sunrise,
      sunset |-> todaySun.sunset,
      hourDuration |-> seg.hour.durata,
      bodyIndex |-> idx_final,
      rulerDay |-> seg.zi_ast,
      segment |-> seg.segment]

\* calculatePlanetaryHour returning the sun times of the day the segment
\* began on
calculatePlanetaryHour_segmentDay(e, t) ==
  HourOfSegment[t,
                calculateSunTimes(e, IF SegmentOf(e, t).segment = "beforeSunrise"
                                     THEN AddDays(t, 0 - 1) ELSE t),
                SegmentOf(e, t)]

calculatePlanetaryHour(e, t) ==
  HourOfSegment[t, calculateSunTimes(e, t), SegmentOf(e, t)]

(***************************************************************************)
(* Planetary hour resolver, revision "coarse" (src/frontend/app/index.tsx, *)
(* the same code as src/unnamed/part_001)                                  *)
(***************************************************************************)
\* hourNumber = Math.floor(ms / hourLength) + 1
RawHourNumber(t, start, hourLength) ==
  JsAdd[JsFloorDiv[JsSub[t, start], hourLength], 1]

\* hourIndex = (startIndex + offset + hourNumber - 1) % 7, from the hour
\* number before it is limited to 12
HourIndex(startIndex, offset, hourNumber) ==
  JsMod[JsSub[JsAdd[startIndex + offset, hourNumber], 1], 7]

\* nextHourTime = new Date(start + hourNumber * hourLength)
NextHourTime(start, hourNumber, hourLength) ==
  NewDate[JsAdd[start, JsMul[hourNumber, hourLength]]]

\* the locals nightStart and effectiveDayOfWeek of the night branch
Nights == [nightStart : Int, effectiveDayOfWeek : 0..6]

\* lines 153-164: where the night began and whose ruler opens it
NightOf_index(e, t) ==
  LET dayOfWeek == GetDay(e, t)
      sun == calculateSunTimes_index(e, t)
  IN IF JsLt[t, sun.sunrise]
     THEN LET yesterday == AddDays(t, 0 - 1)
              yesterdaySun == calculateSunTimes_index(e, yesterday)
          IN [nightStart |-> yesterdaySun.sunset,
              effectiveDayOfWeek |-> (dayOfWeek + 6) % 7]
     ELSE [nightStart |-> sun.sunset, effectiveDayOfWeek |-> dayOfWeek]

\* lines 133-182: lengths, hour number, body index, next change and the
\* returned object
HourOf_index[t \in Int, dayOfWeek \in 0..6, sun \in SunTimesObjects, night \in Nights] ==
  LET sunrise == sun.sunrise
      sunset == sun.sunset
      isDay == JsGe[t, sunrise] /\ JsLt[t, sunset]
      dayLengthMs == JsSub[sunset, sunrise]
      nightLengthMs == JsSub[24 * 60 * 60 * 1000, dayLengthMs]
      dayHourLength == DivBy12[dayLengthMs]
      nightHourLength == DivBy12[nightLengthMs]
      rulerDay == IF isDay THEN dayOfWeek ELSE night.effectiveDayOfWeek
      startIndex == IndexOf[PLANETARY_SEQUENCE, DAY_RULERS[rulerDay]]
      start == IF isDay THEN sunrise ELSE night.nightStart
      hourLength == IF isDay THEN dayHourLength ELSE nightHourLength
      offset == IF isDay THEN 0 ELSE 12
      hourNumber == RawHourNumber(t, start, hourLength)
      hourIndex == HourIndex(startIndex, offset, hourNumber)
      over == JsGt[hourNumber, 12]
      nextHourTime == IF ~over THEN NextHourTime(start, hourNumber, hourLength)
                      ELSE IF isDay THEN sunset ELSE sunrise
  IN [currentPlanet |-> ArrayAt[PLANETARY_SEQUENCE, hourIndex],
      nextPlanet |-> NextOf(PLANETARY_SEQUENCE, hourIndex),
      hourNumber |-> IF over THEN 12 ELSE hourNumber,
      isDay |-> isDay,
      nextHourTime |-> nextHourTime,
      timeUntilNext |-> JsSub[nextHourTime, t],
      sunrise |-> sunrise,
      sunset |-> sunset,
      hourDuration |-> hourLength,
      bodyIndex |-> hourIndex,
      rulerDay |-> rulerDay,
      segment |-> IF isDay THEN "day"
                  ELSE IF JsLt[t, sunrise] THEN "beforeSunrise"
                  ELSE "afterSunset"]

calculatePlanetaryHour_index(e, t) ==
  HourOf_index[t, GetDay(e, t), calculateSunTimes_index(e, t),
               NightOf_index(e, t)]

(***************************************************************************)
(* The application around the screen.  "saved" is PlanetaryHoursApp of     *)
(* src/unnamed/part_000 (the same in src/frontend/app/index.tsx): a list   *)
(* of saved locations and a current one, both kept in AsyncStorage.        *)
(* "single" is PlanetaryHoursApp of src/unnamed/part_001: one location.    *)
(* An optional value (a LocationData or null, a stored item or none) is a  *)
(* sequence of length 0 or 1.                                              *)
(***************************************************************************)
VARIABLES app, currentLocation, savedLocations, appLoading, showAddLocation,
          showLocationMenu, storageCurrent, storageList, formLatitude,
          formLongitude, lastAlert

appVars ==
  <<app, currentLocation, savedLocations, appLoading, showAddLocation,
    showLocationMenu, storageCurrent, storageList, formLatitude,
    formLongitude, lastAlert>>

\* what an action of one group leaves alone: every other group
exceptScreen ==
  <<appVars, callVars, dateVars, loopVars, timerVars, asyncVars,
    faultVars,
    gpsVars>>
exceptApp ==
  <<screenVars, callVars, dateVars, loopVars, timerVars, asyncVars,
    faultVars,
    gpsVars>>
exceptCall ==
  <<screenVars, appVars, dateVars, loopVars, timerVars, asyncVars,
    faultVars,
    gpsVars>>
exceptDate ==
  <<screenVars, appVars, callVars, loopVars, timerVars, asyncVars,
    faultVars,
    gpsVars>>
exceptLoop ==
  <<screenVars, appVars, callVars, dateVars, timerVars, asyncVars,
    faultVars,
    gpsVars>>
exceptScreenAndTimer ==
  <<appVars, callVars, dateVars, loopVars, asyncVars,
    faultVars,
    gpsVars>>
exceptAppAndAsync ==
  <<screenVars, callVars, dateVars, loopVars, timerVars,
    faultVars,
    gpsVars>>

exceptAppAndGps ==
  <<screenVars, callVars, dateVars, loopVars, timerVars, asyncVars,
    faultVars>>

Apps == {"saved", "single"}

Null == <<>>

\* texts typed into the latitude and longitude fields
LatitudeTexts == {"", "90", "91", "-90", "-91", "abc", "Infinity"}
LongitudeTexts == {"", "180", "181", "-181", "x"}

\* parseFloat of these texts
parseFloat[s \in STRING] ==
  CASE s = "90" -> 90
    [] s = "91" -> 91
    [] s = "-90" -> 0 - 90
    [] s = "-91" -> 0 - 91
    [] s = "180" -> 180
    [] s = "181" -> 181
    [] s = "-181" -> 0 - 181
    [] s = "Infinity" -> PosInf
    [] OTHER -> NaN

\* isNaN
isNaN[x \in Int] == x = NaN

\* the coordinates the platform reports: position.coords of
\* getCurrentPositionAsync and results[0] of geocodeAsync
PlatformLocations == {[latitude |-> 45, longitude |-> 26]}

\* the locations a user can add: accepted manual entries and the platform's
AllLocations ==
  {[latitude |-> parseFloat[a], longitude |-> parseFloat[o]] :
     a \in {"90", "-90"}, o \in {"180"}} \cup PlatformLocations

\* loc.latitude === location.latitude && loc.longitude === location.longitude
SamePlace(a, b) == a.latitude = b.latitude /\ a.longitude = b.longitude

\* savedLocations.some(...)
Exists(list, location) ==
  \E i \in 1..Len(list) : SamePlace(list[i], location)

\* savedLocations.filter(loc => !(same place as location))
RECURSIVE Without(_, _)
Without(list, location) ==
  IF list = <<>> THEN <<>>
  ELSE IF SamePlace(Head(list), location) THEN Without(Tail(list), location)
  ELSE <<Head(list)>> \o Without(Tail(list), location)

\* the state of the module when it is loaded: useState initial values, and
\* the storage as the previous run left it
AppInit ==
  /\ app \in Apps
  /\ currentLocation = Null
  /\ savedLocations = <<>>
  /\ appLoading = TRUE
  /\ showAddLocation = FALSE
  /\ showLocationMenu = FALSE
  /\ storageCurrent = Null
  /\ storageList = Null
  /\ formLatitude = ""
  /\ formLongitude = ""
  /\ lastAlert = "none"

\* the rendering without its `if (!currentLocation)` branch
AddLocationShown_onlyOnRequest ==
  /\ ~appLoading
  /\ IF app = "saved" THEN showAddLocation
     ELSE currentLocation = Null

\* the screen that asks for a location is displayed
AddLocationShown ==
  /\ ~appLoading
  /\ IF app = "saved" THEN showAddLocation \/ currentLocation = Null
     ELSE currentLocation = Null

\* the planetary hours screen is displayed
HoursShown == ~appLoading /\ ~AddLocationShown

\* Alert.alert(title, message) and nothing else
AlertOnly(message) ==
  /\ lastAlert' = message
  /\ UNCHANGED <<app, currentLocation, savedLocations, appLoading,
                 showAddLocation, showLocationMenu, storageCurrent,
                 storageList, formLatitude, formLongitude>>

\* handleAddLocation appending without looking for the coordinates
Deliver_alwaysAppends(location) ==
  /\ IF app = "saved"
     THEN /\ storageList' = <<Append(savedLocations, location)>>
          /\ savedLocations' = Append(savedLocations, location)
          /\ storageCurrent' = <<location>>
          /\ currentLocation' = <<location>>
          /\ showAddLocation' = FALSE
          /\ showLocationMenu' = FALSE
     ELSE /\ storageCurrent' = <<location>>
          /\ currentLocation' = <<location>>
          /\ UNCHANGED <<storageList, savedLocations, showAddLocation,
                         showLocationMenu>>
  /\ formLatitude' = ""
  /\ formLongitude' = ""
  /\ UNCHANGED <<app, appLoading, lastAlert>>

\* handleAddLocation making the location current without saving it
Deliver_neverAppends(location) ==
  /\ storageCurrent' = <<location>>
  /\ currentLocation' = <<location>>
  /\ IF app = "saved"
     THEN showAddLocation' = FALSE /\ showLocationMenu' = FALSE
     ELSE UNCHANGED <<showAddLocation, showLocationMenu>>
  /\ formLatitude' = ""
  /\ formLongitude' = ""
  /\ UNCHANGED <<app, appLoading, lastAlert, storageList, savedLocations>>

\* handleAddLocation(location) of "saved"; in "single" the setup screen
\* stores the location and calls onLocationSet = setLocation.  The screen
\* that delivered the location is unmounted, and its fields with it.
Deliver(location) ==
  /\ IF app = "saved"
     THEN /\ IF ~Exists(savedLocations, location)
             THEN /\ storageList' = <<Append(savedLocations, location)>>
                  /\ savedLocations' = Append(savedLocations, location)
             ELSE UNCHANGED <<storageList, savedLocations>>
          /\ storageCurrent' = <<location>>
          /\ currentLocation' = <<location>>
          /\ showAddLocation' = FALSE
          /\ showLocationMenu' = FALSE
     ELSE /\ storageCurrent' = <<location>>
          /\ currentLocation' = <<location>>
          /\ UNCHANGED <<storageList, savedLocations, showAddLocation,
                         showLocationMenu>>
  /\ formLatitude' = ""
  /\ formLongitude' = ""
  /\ UNCHANGED <<app, appLoading, lastAlert>>

\* JSON.parse(savedList) is reached and returns: the reads resolved and the
\* text parses
ListParsed == fault \in {"none", "current invalid"}

\* JSON.parse(savedCurrent) is reached and returns: the reads resolved, the
\* list, parsed first, did not throw, and the text parses
CurrentParsed == fault = "none"

\* loadData of "saved", loadSavedLocation of "single": the effect on mount.
\* Every path, the catch included, goes on to setLoading(false).
loadData ==
  /\ UNCHANGED exceptApp
  /\ appLoading
  /\ IF app = "saved" /\ storageList # Null /\ ListParsed
     THEN savedLocations' = storageList[1]
     ELSE UNCHANGED savedLocations
  /\ IF storageCurrent # Null /\ CurrentParsed
     THEN currentLocation' = <<storageCurrent[1]>>
     ELSE UNCHANGED currentLocation
  /\ appLoading' = FALSE
  /\ UNCHANGED <<app, showAddLocation, showLocationMenu, storageCurrent,
                 storageList, formLatitude, formLongitude, lastAlert>>

\* onChangeText of the two coordinate fields
setLatitude ==
  /\ UNCHANGED exceptApp
  /\ AddLocationShown
  /\ \E text \in LatitudeTexts : formLatitude' = text
  /\ UNCHANGED <<app, currentLocation, savedLocations, appLoading,
                 showAddLocation, showLocationMenu, storageCurrent,
                 storageList, formLongitude, lastAlert>>

setLongitude ==
  /\ UNCHANGED exceptApp
  /\ AddLocationShown
  /\ \E text \in LongitudeTexts : formLongitude' = text
  /\ UNCHANGED <<app, currentLocation, savedLocations, appLoading,
                 showAddLocation, showLocationMenu, storageCurrent,
                 storageList, formLatitude, lastAlert>>

\* the messages of the two revisions of handleManualEntry
NotNumericAlert ==
  IF app = "saved" THEN "Please enter valid coordinates."
  ELSE "Please enter valid numeric coordinates."

RangeAlert(lat) ==
  IF app = "saved" THEN "Invalid coordinate range."
  ELSE IF lat < 0 - 90 \/ lat > 90 THEN "Latitude must be between -90 and 90."
  ELSE "Longitude must be between -180 and 180."

\* handleManualEntry without the range check
handleManualEntry_noRange ==
  /\ UNCHANGED exceptApp
  /\ AddLocationShown
  /\ LET lat == parseFloat[formLatitude]
         lon == parseFloat[formLongitude]
     IN IF isNaN[lat] \/ isNaN[lon] THEN AlertOnly(NotNumericAlert)
        ELSE Deliver([latitude |-> lat, longitude |-> lon])

handleManualEntry ==
  /\ UNCHANGED exceptApp
  /\ AddLocationShown
  /\ LET lat == parseFloat[formLatitude]
         lon == parseFloat[formLongitude]
     IN IF isNaN[lat] \/ isNaN[lon] THEN AlertOnly(NotNumericAlert)
        ELSE IF lat < 0 - 90 \/ lat > 90 \/ lon < 0 - 180 \/ lon > 180
        THEN AlertOnly(RangeAlert(lat))
        ELSE Deliver([latitude |-> lat, longitude |-> lon])

\* handleGPSLocation: permission refused, a failure, or a position
handleGPSLocation ==
  /\ UNCHANGED exceptApp
  /\ AddLocationShown
  /\ \/ AlertOnly("Location permission is required.")
     \/ AlertOnly("Failed to get GPS location.")
     \/ \E position \in PlatformLocations : Deliver(position)

\* handleSearchLocation: an empty query, no result, a failure, or a result
handleSearchLocation ==
  /\ UNCHANGED exceptApp
  /\ AddLocationShown
  /\ \/ AlertOnly("Please enter a location name.")
     \/ AlertOnly("Location not found. Try coordinates instead.")
     \/ AlertOnly("Search failed.")
     \/ \E result \in PlatformLocations : Deliver(result)

\* onOpenLocationMenu, onClose, onAddNew of the menu and onCancel of the
\* add-location screen
setShowLocationMenu ==
  /\ UNCHANGED exceptApp
  /\ app = "saved"
  /\ HoursShown
  /\ showLocationMenu' = ~showLocationMenu
  /\ UNCHANGED <<app, currentLocation, savedLocations, appLoading,
                 showAddLocation, storageCurrent, storageList, formLatitude,
                 formLongitude, lastAlert>>

onAddNew ==
  /\ UNCHANGED exceptApp
  /\ app = "saved"
  /\ HoursShown
  /\ showLocationMenu
  /\ showLocationMenu' = FALSE
  /\ showAddLocation' = TRUE
  /\ UNCHANGED <<app, currentLocation, savedLocations, appLoading,
                 storageCurrent, storageList, formLatitude, formLongitude,
                 lastAlert>>

onCancel ==
  /\ UNCHANGED exceptApp
  /\ app = "saved"
  /\ ~appLoading
  /\ showAddLocation
  /\ showAddLocation' = FALSE
  /\ formLatitude' = ""
  /\ formLongitude' = ""
  /\ UNCHANGED <<app, currentLocation, savedLocations, appLoading,
                 showLocationMenu, storageCurrent, storageList, lastAlert>>

\* onCancel of the add-location screen rendered for want of a location:
\* () => {}
onCancelWithoutLocation ==
  /\ UNCHANGED exceptApp
  /\ app = "saved"
  /\ ~appLoading
  /\ ~showAddLocation
  /\ currentLocation = Null
  /\ UNCHANGED appVars

\* handleSelectLocation(location) for a row of the menu
handleSelectLocation ==
  /\ UNCHANGED exceptApp
  /\ app = "saved"
  /\ HoursShown
  /\ showLocationMenu
  /\ \E i \in 1..Len(savedLocations) :
       /\ storageCurrent' = <<savedLocations[i]>>
       /\ currentLocation' = <<savedLocations[i]>>
  /\ showLocationMenu' = FALSE
  /\ UNCHANGED <<app, savedLocations, appLoading, showAddLocation,
                 storageList, formLatitude, formLongitude, lastAlert>>

\* the onPress of the Delete button of the alert of
\* handleDeleteLocation(location), leaving a current location without
\* successor
DeleteConfirmed_clearsCurrent(location) ==
  LET newList == Without(savedLocations, location)
  IN /\ storageList' = <<newList>>
     /\ savedLocations' = newList
     /\ IF currentLocation # Null /\ SamePlace(currentLocation[1], location)
        THEN /\ currentLocation' = Null
             /\ storageCurrent' = Null
        ELSE UNCHANGED <<currentLocation, storageCurrent>>

\* the onPress of the Delete button of the alert of
\* handleDeleteLocation(location)
DeleteConfirmed(location) ==
  LET newList == Without(savedLocations, location)
  IN /\ storageList' = <<newList>>
     /\ savedLocations' = newList
     /\ IF currentLocation # Null /\ SamePlace(currentLocation[1], location)
        THEN IF Len(newList) > 0
             THEN /\ currentLocation' = <<newList[1]>>
                  /\ storageCurrent' = <<newList[1]>>
             ELSE /\ currentLocation' = Null
                  /\ storageCurrent' = Null
        ELSE UNCHANGED <<currentLocation, storageCurrent>>

\* a row of the menu can be pressed
MenuShown == app = "saved" /\ HoursShown /\ showLocationMenu

\* handleDeleteLocation(location) for a row of the menu, Delete pressed
handleDeleteLocation ==
  /\ UNCHANGED exceptApp
  /\ MenuShown
  /\ \E i \in 1..Len(savedLocations) : DeleteConfirmed(savedLocations[i])
  /\ lastAlert' = "Delete Location"
  /\ UNCHANGED <<app, appLoading, showAddLocation, showLocationMenu,
                 formLatitude, formLongitude>>

\* handleDeleteLocation(location) for a row of the menu, Cancel pressed
cancelDeleteLocation ==
  /\ UNCHANGED exceptApp
  /\ MenuShown
  /\ Len(savedLocations) > 0
  /\ AlertOnly("Delete Location")

\* handleChangeLocation of "single"
handleChangeLocation ==
  /\ UNCHANGED exceptApp
  /\ app = "single"
  /\ HoursShown
  /\ storageCurrent' = Null
  /\ currentLocation' = Null
  /\ UNCHANGED <<app, savedLocations, appLoading, showAddLocation,
                 showLocationMenu, storageList, formLatitude, formLongitude,
                 lastAlert>>

\* the process ends and the application is launched again: the state of
\* the components is their initial state, the storage is kept
Relaunch ==
  /\ UNCHANGED exceptApp
  /\ ~appLoading
  /\ currentLocation' = Null
  /\ savedLocations' = <<>>
  /\ appLoading' = TRUE
  /\ showAddLocation' = FALSE
  /\ showLocationMenu' = FALSE
  /\ formLatitude' = ""
  /\ formLongitude' = ""
  /\ lastAlert' = "none"
  /\ UNCHANGED <<app, storageCurrent, storageList>>

AppNext ==
  \/ loadData
  \/ setLatitude
  \/ setLongitude
  \/ handleManualEntry
  \/ handleGPSLocation
  \/ handleSearchLocation
  \/ setShowLocationMenu
  \/ onAddNew
  \/ onCancel
  \/ onCancelWithoutLocation
  \/ handleSelectLocation
  \/ handleDeleteLocation
  \/ cancelDeleteLocation
  \/ handleChangeLocation
  \/ Relaunch

vars ==
  <<screenVars, appVars, callVars, dateVars, loopVars, timerVars,
    asyncVars, faultVars, gpsVars>>

(***************************************************************************)
(* The polling screen: PlanetaryHoursScreen computes the hour when it      *)
(* mounts and again on every tick of its one-second interval.  The clock   *)
(* only moves forward; a tick may land anywhere, so the instants offered   *)
(* are a grid of the day, the announced next change, and the sunrises and  *)
(* sunsets of today and tomorrow.                                          *)
(***************************************************************************)
Revisions == {"noaa", "coarse"}

\* the location and season, the device's time zone and the calendar
Env ==
  [latProfile |-> latProfile, longitude |-> longitude,
   timezoneOffset |-> timezoneOffset, eqDrift |-> eqDrift, dow0 |-> dow0]

ResolveIn(rev, e, t) ==
  IF rev = "noaa" THEN calculatePlanetaryHour(e, t)
  ELSE calculatePlanetaryHour_index(e, t)

SunTimesIn(rev, e, t) ==
  IF rev = "noaa" THEN calculateSunTimes(e, t)
  ELSE calculateSunTimes_index(e, t)

Resolve(t) == ResolveIn(revision, Env, t)

SunTimes(t) == SunTimesIn(revision, Env, t)

FirstInstant == MS_PER_DAY
LastInstant == (NumDays - 1) * MS_PER_DAY - 1

InWindow(t) == IsFinite[t] /\ t >= FirstInstant /\ t <= LastInstant

GridStep == MS_PER_DAY \div GridPerDay

GridInstants ==
  {FirstInstant + k * GridStep : k \in 0..((NumDays - 2) * GridPerDay - 1)}

Init ==
  /\ revision \in Revisions
  /\ latProfile \in (1..Len(AcosArgs)) \X Trends
  /\ longitude \in Longitudes
  /\ timezoneOffset \in TimezoneOffsets
  /\ eqDrift \in EqDrifts
  /\ revision = "coarse" => eqDrift = 0
  /\ dow0 \in 0..6
  /\ now = FirstInstant
  /\ planetaryHour = Resolve(now)
  /\ lastStep = "mount"
  /\ AppInit
  /\ app = "saved"
  /\ NoCall
  /\ NoLoop
  /\ NoTimer
  /\ NoAsync
  /\ NoGps
  /\ NoFault
  /\ NoDate

\* the interval callback at instant t: newHour = calculatePlanetaryHour(location);
\* setPlanetaryHour(newHour)
TickAt(t, step) ==
  /\ InWindow(t)
  /\ t > now
  /\ now' = t
  /\ planetaryHour' = Resolve(t)
  /\ lastStep' = step
  /\ UNCHANGED <<revision, latProfile, longitude, timezoneOffset, eqDrift, dow0>>
  /\ UNCHANGED exceptScreen

\* a tick at the next instant of the grid
IntervalTick ==
  \E t \in GridInstants :
    /\ \A u \in GridInstants : u > now => t <= u
    /\ TickAt(t, "interval")

\* a tick exactly at the announced next change
TickAtNextHour ==
  \E t \in {planetaryHour.nextHourTime} : TickAt(t, "nextHour")

\* a tick exactly at a sunrise or sunset of today or tomorrow
TickAtSunEvent ==
  \E d \in 0..1 :
    \E t \in {SunTimes(AddDays(now, d)).sunrise, SunTimes(AddDays(now, d)).sunset} :
      TickAt(t, "sunEvent")

\* wall-clock times of day, in minutes after midnight, at which a tick may
\* also land: 02:00, 06:59, 07:00 and 17:59
ClockMinutes == {120, 419, 420, 1079}

ClockInstants ==
  {d * MS_PER_DAY + m * MS_PER_MINUTE : d \in 1..(NumDays - 2), m \in ClockMinutes}

\* a tick at one of these times of a day of the window
TickAtClock ==
  \E t \in ClockInstants :
    /\ t > now
    /\ TickAt(t, "clock")

Next ==
  \/ IntervalTick
  \/ TickAtNextHour
  \/ TickAtSunEvent
  \/ TickAtClock

Spec == Init /\ [][Next]_vars

InitNoaa == Init /\ revision = "noaa"

\* the revision of src/unnamed/part_000 alone
SpecNoaa == InitNoaa /\ [][Next]_vars

InitCoarse == Init /\ revision = "coarse"

\* the revision of src/frontend/app/index.tsx alone
SpecCoarse == InitCoarse /\ [][Next]_vars

\* the screen at one instant, for the specifications that do not move it
ScreenAtRest ==
  /\ revision = "noaa"
  /\ latProfile = <<5, 0>>
  /\ longitude = 0
  /\ timezoneOffset = 0
  /\ eqDrift = 0
  /\ dow0 = 0
  /\ now = FirstInstant
  /\ planetaryHour = Resolve(now)
  /\ lastStep = "mount"

\* the application alone
InitApp ==
  /\ AppInit
  /\ NoCall
  /\ NoLoop
  /\ NoTimer
  /\ NoAsync
  /\ NoGps
  /\ NoFault
  /\ NoDate
  /\ ScreenAtRest

SpecApp == InitApp /\ [][AppNext]_vars

(***************************************************************************)
(* handleGPSLocation of the add-location screen, await by await.  While    *)
(* its loading flag is set the screen renders the spinner alone, so no     *)
(* other handler of the screen starts.                                      *)
(***************************************************************************)

\* position.coords of getCurrentPositionAsync
GpsPositions ==
  PlatformLocations \cup {[latitude |-> 0 - 34, longitude |-> 151]}

\* what reverseGeocodeAsync resolves with: no address, or an address with
\* some of the three fields
Addresses ==
  {<<>>} \cup {<<address>> : address \in [city : {"", "Sydney"},
                                          region : {"", "NSW"},
                                          country : {"", "Australia"}]}

\* x.toFixed(4) of a whole number of degrees
toFixed4(x) == ToString(x) \o ".0000"

\* `${latitude.toFixed(4)}, ${longitude.toFixed(4)}`
FormattedCoordinates(position) ==
  toFixed4(position.latitude) \o ", " \o toFixed4(position.longitude)

\* address.city || address.region || address.country || name
NameOf(address, name) ==
  IF address.city # "" THEN address.city
  ELSE IF address.region # "" THEN address.region
  ELSE IF address.country # "" THEN address.country
  ELSE name

GpsEnded == gpsPc \in {"idle", "denied", "failed", "succeeded"}

\* the outer catch: Alert.alert('Error', ...), then setLoading(false)
GpsCatch ==
  /\ AlertOnly("Failed to get GPS location.")
  /\ gpsPc' = "failed"
  /\ gpsLoading' = FALSE

\* onLocationAdded({ latitude, longitude, name }), then setLoading(false)
GpsReport ==
  /\ Deliver(gpsPosition[1])
  /\ gpsReports' = gpsReports + 1
  /\ gpsPc' = "succeeded"
  /\ gpsLoading' = FALSE

\* the button: setLoading(true), up to the await of
\* requestForegroundPermissionsAsync
PressGPS ==
  /\ AddLocationShown
  /\ GpsEnded
  /\ ~gpsLoading
  /\ gpsPc' = "permission"
  /\ gpsLoading' = TRUE
  /\ gpsPosition' = <<>>
  /\ gpsName' = ""
  /\ gpsGeocode' = "none"
  /\ gpsReports' = 0
  /\ UNCHANGED <<appVars, exceptAppAndGps>>

\* requestForegroundPermissionsAsync settles: granted, another status (the
\* alert, setLoading(false), return), or rejected
PermissionSettled ==
  /\ gpsPc = "permission"
  /\ \/ /\ gpsPc' = "position"
        /\ UNCHANGED <<gpsLoading, appVars>>
     \/ /\ AlertOnly("Location permission is required.")
        /\ gpsPc' = "denied"
        /\ gpsLoading' = FALSE
     \/ GpsCatch
  /\ UNCHANGED <<gpsPosition, gpsName, gpsGeocode, gpsReports>>
  /\ UNCHANGED exceptAppAndGps

\* getCurrentPositionAsync settles: the position and the name formatted from
\* it, up to the await of reverseGeocodeAsync, or rejected
PositionSettled ==
  /\ gpsPc = "position"
  /\ \/ \E position \in GpsPositions :
          /\ gpsPosition' = <<position>>
          /\ gpsName' = FormattedCoordinates(position)
          /\ gpsPc' = "geocode"
          /\ UNCHANGED <<gpsLoading, appVars>>
     \/ /\ GpsCatch
        /\ UNCHANGED <<gpsPosition, gpsName>>
  /\ UNCHANGED <<gpsGeocode, gpsReports>>
  /\ UNCHANGED exceptAppAndGps

\* reverseGeocodeAsync rejecting as if the inner try were not there
GeocodeSettled_noInnerTry ==
  /\ gpsPc = "geocode"
  /\ \/ \E found \in Addresses :
          /\ gpsGeocode' = "resolved"
          /\ gpsName' = IF found = <<>> THEN gpsName
                        ELSE NameOf(found[1], gpsName)
          /\ IF app = "saved"
             THEN GpsReport
             ELSE /\ gpsPc' = "store"
                  /\ UNCHANGED <<gpsLoading, gpsReports, appVars>>
     \/ /\ gpsGeocode' = "rejected"
        /\ GpsCatch
        /\ UNCHANGED <<gpsName, gpsReports>>
  /\ UNCHANGED gpsPosition
  /\ UNCHANGED exceptAppAndGps

\* reverseGeocodeAsync settles: the name of the address if there is one, the
\* inner catch if it rejects; then "saved" reports the location and "single"
\* goes on to the await of setItem
GeocodeSettled ==
  /\ gpsPc = "geocode"
  /\ \/ \E found \in Addresses :
          /\ gpsGeocode' = "resolved"
          /\ gpsName' = IF found = <<>> THEN gpsName
                        ELSE NameOf(found[1], gpsName)
     \/ /\ gpsGeocode' = "rejected"
        /\ UNCHANGED gpsName
  /\ IF app = "saved"
     THEN GpsReport
     ELSE /\ gpsPc' = "store"
          /\ UNCHANGED <<gpsLoading, gpsReports, appVars>>
  /\ UNCHANGED gpsPosition
  /\ UNCHANGED exceptAppAndGps

\* setItem(LOCATION_STORAGE_KEY, ...) of "single" settles: onLocationSet, or
\* rejected
StoreSettled ==
  /\ gpsPc = "store"
  /\ \/ GpsReport
     \/ /\ GpsCatch
        /\ UNCHANGED gpsReports
  /\ UNCHANGED <<gpsPosition, gpsName, gpsGeocode>>
  /\ UNCHANGED exceptAppAndGps

\* the handlers that can run while the spinner is not shown
OtherHandlers ==
  /\ ~gpsLoading
  /\ \/ loadData
     \/ setShowLocationMenu
     \/ onAddNew
     \/ onCancel
     \/ handleSelectLocation
     \/ handleDeleteLocation
     \/ handleChangeLocation

NextGps ==
  \/ PressGPS
  \/ PermissionSettled
  \/ PositionSettled
  \/ GeocodeSettled
  \/ StoreSettled
  \/ OtherHandlers

SpecGps == InitApp /\ [][NextGps]_vars

(***************************************************************************)
(* The launch: what loadData finds in the storage                          *)
(***************************************************************************)

\* the lists a launch can find stored
StoredLists ==
  {<<>>} \cup {<<a>> : a \in AllLocations}
         \cup {l \in AllLocations \X AllLocations : ~SamePlace(l[1], l[2])}

\* the state after construction, with the storage an earlier run left and
\* the fault its texts have; a text that is not valid JSON is a text that is
\* there
InitLaunch ==
  /\ app \in Apps
  /\ currentLocation = Null
  /\ savedLocations = <<>>
  /\ appLoading = TRUE
  /\ showAddLocation = FALSE
  /\ showLocationMenu = FALSE
  /\ formLatitude = ""
  /\ formLongitude = ""
  /\ lastAlert = "none"
  /\ storageList \in {Null} \cup {<<list>> : list \in StoredLists}
  /\ storageCurrent \in {Null} \cup {<<a>> : a \in AllLocations}
  /\ app = "single" => storageList = Null
  /\ (app = "saved" /\ storageCurrent # Null) =>
       /\ storageList # Null
       /\ Exists(storageList[1], storageCurrent[1])
  /\ (app = "saved" /\ storageCurrent = Null /\ storageList # Null) =>
       storageList[1] = <<>>
  /\ fault \in {"none", "rejected", "list invalid", "current invalid"}
  /\ fault = "list invalid" => storageList # Null
  /\ fault = "current invalid" => storageCurrent # Null
  /\ NoCall
  /\ NoLoop
  /\ NoTimer
  /\ NoAsync
  /\ NoGps
  /\ NoDate
  /\ ScreenAtRest

\* the promise of the reads settles, and the effect on mount runs to its end
SpecLaunch == InitLaunch /\ [][loadData]_vars /\ WF_vars(loadData)

(***************************************************************************)
(* The handlers of the application with their awaits.  A handler runs up   *)
(* to an await of an AsyncStorage operation and resumes when the operation *)
(* has completed; the operations complete in the order they were issued.   *)
(* A handler closes over the state of the render it was created in.        *)
(***************************************************************************)
MaxInFlight == 2

\* the locations added while handlers overlap: one typed, one from the
\* platform
OverlapLocations ==
  {[latitude |-> parseFloat["-90"], longitude |-> parseFloat["180"]]}
    \cup PlatformLocations

\* an operation in flight: the handler (task), the operation it awaits
\* (step: setItem of the list, setItem of the current location, removeItem
\* of the current location), the location and list of the handler, and for
\* a deletion whether the location was current when the alert opened
Operation(task, step, location, list, wasCurrent) ==
  [task |-> task, step |-> step, location |-> location, list |-> list,
   wasCurrent |-> wasCurrent]

Idle == dialog = <<>> /\ Len(pending) < MaxInFlight

\* handleAddLocation(location) up to its first await; in "single" the
\* setup screen up to its await of setItem
StartAdd ==
  /\ AddLocationShown
  /\ Idle
  /\ \E location \in OverlapLocations :
       /\ pending' =
            Append(pending,
                   IF app = "saved" /\ ~Exists(savedLocations, location)
                   THEN Operation("add", "list", location,
                                  Append(savedLocations, location), FALSE)
                   ELSE Operation("add", "current", location,
                                  savedLocations, FALSE))
       /\ requested' = requested \cup {location}
  /\ UNCHANGED <<dialog, appVars, exceptAppAndAsync>>

\* handleSelectLocation(location) up to its await
StartSelect ==
  /\ MenuShown
  /\ Idle
  /\ \E i \in 1..Len(savedLocations) :
       pending' = Append(pending,
                         Operation("select", "current", savedLocations[i],
                                   savedLocations, FALSE))
  /\ UNCHANGED <<dialog, requested, appVars, exceptAppAndAsync>>

\* handleDeleteLocation(location): Alert.alert with the two buttons
OpenDeleteDialog ==
  /\ MenuShown
  /\ dialog = <<>>
  /\ \E i \in 1..Len(savedLocations) :
       dialog' = <<[location |-> savedLocations[i], list |-> savedLocations,
                    current |-> currentLocation]>>
  /\ UNCHANGED <<pending, requested, appVars, exceptAppAndAsync>>

\* the Cancel button
CancelDelete ==
  /\ dialog # <<>>
  /\ dialog' = <<>>
  /\ UNCHANGED <<pending, requested, appVars, exceptAppAndAsync>>

\* the onPress of the Delete button up to its first await
ConfirmDelete ==
  /\ dialog # <<>>
  /\ Len(pending) < MaxInFlight
  /\ pending' =
       Append(pending,
              Operation("delete", "list", dialog[1].location,
                        Without(dialog[1].list, dialog[1].location),
                        /\ dialog[1].current # <<>>
                        /\ SamePlace(dialog[1].current[1], dialog[1].location)))
  /\ requested' = requested \ {dialog[1].location}
  /\ dialog' = <<>>
  /\ UNCHANGED <<appVars, exceptAppAndAsync>>

\* handleChangeLocation of "single" up to its await of removeItem
StartChange ==
  /\ app = "single"
  /\ HoursShown
  /\ Idle
  /\ pending' = Append(pending,
                        Operation("change", "remove", currentLocation[1],
                                  <<>>, TRUE))
  /\ requested' = {}
  /\ UNCHANGED <<dialog, appVars, exceptAppAndAsync>>

\* a deletion that ends after removeItem, leaving the new current location
\* unsaved
Resumed_noSaveAfterRemove(p) ==
  IF p.step = "list" /\ p.task = "add"
    THEN Append(Tail(pending), [p EXCEPT !.step = "current"])
  ELSE IF p.step = "list" /\ p.task = "delete" /\ p.wasCurrent
    THEN Append(Tail(pending), [p EXCEPT !.step = "remove"])
  ELSE Tail(pending)

\* what follows the head of pending once it has completed: the handler
\* awaiting it issues its next operation, or ends
Resumed(p) ==
  IF p.step = "list" /\ p.task = "add"
    THEN Append(Tail(pending), [p EXCEPT !.step = "current"])
  ELSE IF p.step = "list" /\ p.task = "delete" /\ p.wasCurrent
    THEN Append(Tail(pending), [p EXCEPT !.step = "remove"])
  ELSE IF p.step = "remove" /\ p.task = "delete" /\ p.list # <<>>
    THEN Append(Tail(pending),
                [p EXCEPT !.step = "current", !.location = p.list[1]])
  ELSE Tail(pending)

\* setItem(SAVED_LOCATIONS_KEY, ...) completes: saveLocations goes on with
\* setSavedLocations(locations)
CompleteList ==
  /\ pending # <<>>
  /\ Head(pending).step = "list"
  /\ storageList' = <<Head(pending).list>>
  /\ savedLocations' = Head(pending).list
  /\ pending' = Resumed(Head(pending))
  /\ UNCHANGED <<app, currentLocation, appLoading, showAddLocation,
                 showLocationMenu, storageCurrent, formLatitude,
                 formLongitude, lastAlert>>
  /\ UNCHANGED <<dialog, requested, exceptAppAndAsync>>

\* removeItem(LOCATION_STORAGE_KEY) completes: the deletion goes on with
\* setCurrentLocation(newList.length > 0 ? newList[0] : null), and
\* handleChangeLocation with setLocation(null)
CompleteRemove ==
  /\ pending # <<>>
  /\ Head(pending).step = "remove"
  /\ storageCurrent' = <<>>
  /\ currentLocation' =
       IF Head(pending).list # <<>> THEN <<Head(pending).list[1]>> ELSE <<>>
  /\ pending' = Resumed(Head(pending))
  /\ UNCHANGED <<app, savedLocations, appLoading, showAddLocation,
                 showLocationMenu, storageList, formLatitude, formLongitude,
                 lastAlert>>
  /\ UNCHANGED <<dialog, requested, exceptAppAndAsync>>

\* setItem(LOCATION_STORAGE_KEY, ...) completes: saveCurrentLocation goes
\* on with setCurrentLocation(location), and the handler with its last
\* statements
CompleteCurrent ==
  /\ pending # <<>>
  /\ Head(pending).step = "current"
  /\ storageCurrent' = <<Head(pending).location>>
  /\ currentLocation' = <<Head(pending).location>>
  /\ showAddLocation' =
       IF Head(pending).task = "add" THEN FALSE ELSE showAddLocation
  /\ showLocationMenu' =
       IF Head(pending).task \in {"add", "select"} /\ app = "saved"
       THEN FALSE ELSE showLocationMenu
  /\ pending' = Resumed(Head(pending))
  /\ UNCHANGED <<app, savedLocations, appLoading, storageList, formLatitude,
                 formLongitude, lastAlert>>
  /\ UNCHANGED <<dialog, requested, exceptAppAndAsync>>

\* the screens between the handlers; the alert is modal, and the process
\* is not ended while an operation is in flight
MenuToggled == dialog = <<>> /\ setShowLocationMenu /\ UNCHANGED asyncVars

AddNewPressed == dialog = <<>> /\ onAddNew /\ UNCHANGED asyncVars

CancelPressed == dialog = <<>> /\ onCancel /\ UNCHANGED asyncVars

DataLoaded == loadData /\ UNCHANGED asyncVars

Relaunched ==
  /\ dialog = <<>>
  /\ pending = <<>>
  /\ Relaunch
  /\ UNCHANGED asyncVars

NextAsync ==
  \/ StartAdd
  \/ StartSelect
  \/ OpenDeleteDialog
  \/ CancelDelete
  \/ ConfirmDelete
  \/ StartChange
  \/ CompleteList
  \/ CompleteRemove
  \/ CompleteCurrent
  \/ MenuToggled
  \/ AddNewPressed
  \/ CancelPressed
  \/ DataLoaded
  \/ Relaunched

SpecAsync == InitApp /\ [][NextAsync]_vars

(***************************************************************************)
(* calculateSunTimes of part_000 on Date objects                           *)
(***************************************************************************)

\* the instants of the Date objects handed to calculateSunTimes
CallInstants == GridInstants \cup ClockInstants

\* entry of calculateSunTimes(date, ...): the minute counts are computed
\* from the argument before any Date is built
CallSunTimes ==
  /\ pc = "idle"
  /\ \E t \in CallInstants :
       LET day == DayOf[t]
           hourAngle == getHourAngleSunrise(AcosArgOf(Env, day))
           solarNoonMinutes ==
             4 * (720 - 4 * longitude + timezoneOffset * 60) - EqTimeOf(Env, day)
       IN /\ heap' = <<t>>
          /\ frame' = [date |-> 1, sunrise |-> 0, sunset |-> 0,
                       sunriseMinutes |-> JsSub[solarNoonMinutes, hourAngle],
                       sunsetMinutes |-> JsAdd[solarNoonMinutes, hourAngle]]
  /\ pc' = "newSunrise"
  /\ UNCHANGED exceptCall

\* const name = date: the local refers to the argument itself
CopyDate_alias(name, next) ==
  /\ heap' = heap
  /\ frame' = [frame EXCEPT ![name] = frame.date]
  /\ pc' = next
  /\ UNCHANGED exceptCall

\* const name = new Date(date)
CopyDate(name, next) ==
  /\ heap' = Append(heap, NewDate[heap[frame.date]])
  /\ frame' = [frame EXCEPT ![name] = Len(heap) + 1]
  /\ pc' = next
  /\ UNCHANGED exceptCall

\* name.setHours(0, 0, 0, 0)
SetHoursZero(name, next) ==
  /\ heap' = [heap EXCEPT ![frame[name]] = Midnight[heap[frame[name]]]]
  /\ pc' = next
  /\ UNCHANGED <<frame, exceptCall>>

\* name.setMinutes(Math.round(minutes))
SetMinutesRounded(name, minutes, next) ==
  /\ heap' = [heap EXCEPT
               ![frame[name]] = SetMinutes[heap[frame[name]], RoundQuarters[minutes]]]
  /\ pc' = next
  /\ UNCHANGED <<frame, exceptCall>>

NewSunrise == pc = "newSunrise" /\ CopyDate("sunrise", "sunriseSetHours")

SunriseSetHours ==
  pc = "sunriseSetHours" /\ SetHoursZero("sunrise", "sunriseSetMinutes")

SunriseSetMinutes ==
  /\ pc = "sunriseSetMinutes"
  /\ SetMinutesRounded("sunrise", frame.sunriseMinutes, "newSunset")

NewSunset == pc = "newSunset" /\ CopyDate("sunset", "sunsetSetHours")

SunsetSetHours ==
  pc = "sunsetSetHours" /\ SetHoursZero("sunset", "sunsetSetMinutes")

SunsetSetMinutes ==
  /\ pc = "sunsetSetMinutes"
  /\ SetMinutesRounded("sunset", frame.sunsetMinutes, "return")

\* return { sunrise, sunset }
ReturnSunTimes ==
  /\ pc = "return"
  /\ pc' = "idle"
  /\ UNCHANGED <<heap, frame, exceptCall>>

NextCall ==
  \/ CallSunTimes
  \/ NewSunrise
  \/ SunriseSetHours
  \/ SunriseSetMinutes
  \/ NewSunset
  \/ SunsetSetHours
  \/ SunsetSetMinutes
  \/ ReturnSunTimes

SpecCall == InitNoaa /\ [][NextCall]_vars

(***************************************************************************)
(* getJulianDay along consecutive dates                                    *)
(***************************************************************************)

\* the screen is mounted on the first of January of one of the years
InitJulian ==
  /\ AppInit
  /\ app = "saved"
  /\ NoCall
  /\ NoLoop
  /\ NoTimer
  /\ NoAsync
  /\ NoGps
  /\ NoFault
  /\ ScreenAtRest
  /\ calendar \in [fullYear : Years, month : {0}, date : {1}]
  /\ julianDay = getJulianDay(calendar)

\* tomorrow.setDate(tomorrow.getDate() + 1); calculateSunTimes(tomorrow, ...)
TomorrowJulianDay ==
  /\ SetDatePlusOne(calendar).fullYear \in Years
  /\ calendar' = SetDatePlusOne(calendar)
  /\ julianDay' = getJulianDay(calendar')
  /\ UNCHANGED exceptDate

\* yesterday.setDate(yesterday.getDate() - 1); calculateSunTimes(yesterday, ...)
YesterdayJulianDay ==
  /\ SetDateMinusOne(calendar).fullYear \in Years
  /\ calendar' = SetDateMinusOne(calendar)
  /\ julianDay' = getJulianDay(calendar')
  /\ UNCHANGED exceptDate

NextJulian == TomorrowJulianDay \/ YesterdayJulianDay

SpecJulian == InitJulian /\ [][NextJulian]_vars

(***************************************************************************)
(* getGeomMeanLongSun (src/unnamed/part_000), statement by statement.      *)
(* T = (JD - 2451545) / 36525 with JD the whole number getJulianDay gives, *)
(* so L0 = 280.46646 + 0.98564736 n + 0.0003032 T * T degrees for          *)
(* n = JD - 2451545 days.  L0 is kept in thousandths of a degree; the      *)
(* last term is below one thousandth for the years considered.             *)
(***************************************************************************)
TURN == 360000

\* 280.46646 + T * (36000.76983 + 0.0003032 * T), in thousandths
MeanLongitudeBeforeLoops[n \in Int] ==
  280466 + 985 * n + FloorQuot[647 * n, 1000]

\* the dates calculateSunTimes is called for
LoopDates == [fullYear : Years, month : {0, 5, 11}, date : {1, 15}]

InitLoop ==
  /\ AppInit
  /\ app = "saved"
  /\ NoCall
  /\ NoLoop
  /\ NoTimer
  /\ NoAsync
  /\ NoGps
  /\ NoFault
  /\ ScreenAtRest
  /\ calendar \in LoopDates
  /\ julianDay = getJulianDay(calendar)

\* let L0 = 280.46646 + T * (...)
EnterGeomMeanLongSun ==
  /\ loopPc = "idle"
  /\ L0' = MeanLongitudeBeforeLoops[julianDay - 2451545]
  /\ loopPc' = "whileAbove"
  /\ UNCHANGED exceptLoop

\* while (L0 > 360) L0 -= 360: one turn of the body
SubtractTurn ==
  /\ loopPc = "whileAbove"
  /\ L0 > TURN
  /\ L0' = L0 - TURN
  /\ UNCHANGED <<loopPc, exceptLoop>>

\* while (L0 > 360): the condition is false
LeaveWhileAbove ==
  /\ loopPc = "whileAbove"
  /\ ~(L0 > TURN)
  /\ loopPc' = "whileBelow"
  /\ UNCHANGED <<L0, exceptLoop>>

\* the body of the second loop adding two turns
AddTurn_twoTurns ==
  /\ loopPc = "whileBelow"
  /\ L0 < 0
  /\ L0' = L0 + 2 * TURN
  /\ UNCHANGED <<loopPc, exceptLoop>>

\* while (L0 < 0) L0 += 360: one turn of the body
AddTurn ==
  /\ loopPc = "whileBelow"
  /\ L0 < 0
  /\ L0' = L0 + TURN
  /\ UNCHANGED <<loopPc, exceptLoop>>

\* while (L0 < 0): the condition is false; return L0
ReturnL0 ==
  /\ loopPc = "whileBelow"
  /\ ~(L0 < 0)
  /\ loopPc' = "returned"
  /\ UNCHANGED <<L0, exceptLoop>>

\* the caller goes on; the next computation is for the same date
LeaveGeomMeanLongSun ==
  /\ loopPc = "returned"
  /\ loopPc' = "idle"
  /\ UNCHANGED <<L0, exceptLoop>>

NextLoop ==
  \/ EnterGeomMeanLongSun
  \/ SubtractTurn
  \/ LeaveWhileAbove
  \/ AddTurn
  \/ ReturnL0
  \/ LeaveGeomMeanLongSun

\* the function is synchronous code: a statement that can run does run
SpecLoop == InitLoop /\ [][NextLoop]_vars /\ WF_vars(NextLoop)

(***************************************************************************)
(* The life of PlanetaryHoursScreen: mount, the effect that creates the    *)
(* interval and its cleanup, the interval callback, a change of the        *)
(* location prop, unmount.  A commit and the effects it schedules are one  *)
(* step.                                                                   *)
(***************************************************************************)

\* the locations the application passes as the location prop
Locations ==
  {[latProfile |-> <<5, 0>>, longitude |-> 0],
   [latProfile |-> <<5, 0>>, longitude |-> 90],
   [latProfile |-> <<3, 0>>, longitude |-> 90]}

\* the location prop of the current render
LocationProp == [latProfile |-> latProfile, longitude |-> longitude]

\* what the callback of an interval created now closes over
Closure(location, planet) ==
  [latProfile |-> location.latProfile, longitude |-> location.longitude,
   prevPlanet |-> planet]

\* calculatePlanetaryHour(location) with the location of a closure
ResolveFor(c, t) ==
  ResolveIn(revision,
            [latProfile |-> c.latProfile, longitude |-> c.longitude,
             timezoneOffset |-> timezoneOffset, eqDrift |-> eqDrift,
             dow0 |-> dow0],
            t)

\* the effect run again without the cleanup of the previous run
RunEffect_noCleanup(list, c) == Append(list, c)

\* the effect run again: the cleanup of the previous run clears its
\* interval, then setInterval creates one
RunEffect(list, c) == Append(SubSeq(list, 1, Len(list) - 1), c)

InitScreen ==
  /\ AppInit
  /\ app = "saved"
  /\ NoCall
  /\ NoLoop
  /\ NoDate
  /\ NoTimer
  /\ NoAsync
  /\ NoGps
  /\ NoFault
  /\ revision \in Revisions
  /\ latProfile = <<5, 0>>
  /\ longitude = 0
  /\ timezoneOffset = 0
  /\ eqDrift = 0
  /\ dow0 \in {0, 3}
  /\ now = FirstInstant
  /\ planetaryHour = Resolve(now)
  /\ lastStep = "mount"

\* first render, useState(calculatePlanetaryHour(location)), first effect
MountScreen ==
  /\ ~mounted
  /\ mounted' = TRUE
  /\ planetaryHour' = Resolve(now)
  /\ prevPlanet' = planetaryHour'.currentPlanet
  /\ intervals' = <<Closure(LocationProp, prevPlanet')>>
  /\ lastStep' = "mount"
  /\ UNCHANGED <<revision, latProfile, longitude, timezoneOffset, eqDrift,
                 dow0, now>>
  /\ UNCHANGED exceptScreenAndTimer

\* the callback of interval i at an instant t; setPrevPlanet with a new
\* value makes the effect run again
IntervalCallback ==
  /\ \E i \in 1..Len(intervals) :
       \E t \in CallInstants :
         /\ t > now
         /\ now' = t
         /\ planetaryHour' = ResolveFor(intervals[i], t)
         /\ prevPlanet' =
              IF planetaryHour'.currentPlanet # intervals[i].prevPlanet
              THEN planetaryHour'.currentPlanet
              ELSE prevPlanet
  /\ intervals' =
       IF prevPlanet' # prevPlanet
       THEN RunEffect(intervals, Closure(LocationProp, prevPlanet'))
       ELSE intervals
  /\ lastStep' = "interval"
  /\ UNCHANGED <<revision, latProfile, longitude, timezoneOffset, eqDrift,
                 dow0, mounted>>
  /\ UNCHANGED exceptScreenAndTimer

\* the application renders the screen with another location
LocationPropChanges ==
  /\ mounted
  /\ \E location \in Locations \ {LocationProp} :
       /\ latProfile' = location.latProfile
       /\ longitude' = location.longitude
       /\ intervals' = RunEffect(intervals, Closure(location, prevPlanet))
  /\ lastStep' = "location"
  /\ UNCHANGED <<revision, timezoneOffset, eqDrift, dow0, now, planetaryHour,
                 mounted, prevPlanet>>
  /\ UNCHANGED exceptScreenAndTimer

\* unmount: the cleanup of the last effect run
UnmountScreen ==
  /\ mounted
  /\ mounted' = FALSE
  /\ intervals' = SubSeq(intervals, 1, Len(intervals) - 1)
  /\ lastStep' = "unmount"
  /\ UNCHANGED <<revision, latProfile, longitude, timezoneOffset, eqDrift,
                 dow0, now, planetaryHour, prevPlanet>>
  /\ UNCHANGED exceptScreenAndTimer

NextScreen ==
  \/ MountScreen
  \/ IntervalCallback
  \/ LocationPropChanges
  \/ UnmountScreen

SpecScreen == InitScreen /\ [][NextScreen]_vars

(***************************************************************************)
(* Properties                                                              *)
(***************************************************************************)
SevenBodies == {PLANETARY_SEQUENCE[i] : i \in 1..Len(PLANETARY_SEQUENCE)}

\* the body that follows p in the Chaldean order, moon wrapping to saturn
Following(p) ==
  CASE p = "saturn" -> "jupiter"
    [] p = "jupiter" -> "mars"
    [] p = "mars" -> "sun"
    [] p = "sun" -> "venus"
    [] p = "venus" -> "mercury"
    [] p = "mercury" -> "moon"
    [] p = "moon" -> "saturn"
    [] OTHER -> "none"

\* the body k places after the ruler of weekday d, for k >= 0
BodyAfterRuler(d, k) ==
  PLANETARY_SEQUENCE[((IndexOf[PLANETARY_SEQUENCE, DAY_RULERS[d]] + k) % 7) + 1]

TodaySun == SunTimes(now)
YesterdaySun == SunTimes(AddDays(now, 0 - 1))
TomorrowSun == SunTimes(AddDays(now, 1))

\* today's sunrise and sunset are valid instants with sunrise before sunset
ProperDay ==
  /\ IsFinite[TodaySun.sunrise]
  /\ IsFinite[TodaySun.sunset]
  /\ TodaySun.sunrise < TodaySun.sunset

\* C1: every result has an integer hourNumber with 1 <= hourNumber <= 12
C1_HourNumberInRange ==
  /\ IsFinite[planetaryHour.hourNumber]
  /\ planetaryHour.hourNumber >= 1
  /\ planetaryHour.hourNumber <= 12

\* C2: the body index is in 0..6, currentPlanet is one of the seven bodies
\* and nextPlanet is the body that follows it in the cyclic order
C2_BodyInSequence ==
  /\ IsFinite[planetaryHour.bodyIndex]
  /\ planetaryHour.bodyIndex >= 0
  /\ planetaryHour.bodyIndex <= 6
  /\ planetaryHour.currentPlanet \in SevenBodies
  /\ planetaryHour.nextPlanet = Following(planetaryHour.currentPlanet)

\* C3: the next change lies strictly after now and the current hour began at
\* or before now: 0 < timeUntilNext <= hour duration, in every segment
C3_NowInsideHour ==
  /\ IsFinite[planetaryHour.timeUntilNext]
  /\ IsFinite[planetaryHour.hourDuration]
  /\ 0 < planetaryHour.timeUntilNext
  /\ planetaryHour.timeUntilNext <= planetaryHour.hourDuration

\* C4: isDay exactly when sunrise <= now < sunset; at sunrise the result is
\* day hour 1 of today's ruler; at sunset the result is night hour 1
C4_SegmentSelection ==
  /\ planetaryHour.isDay <=>
       (JsGe[now, TodaySun.sunrise] /\ JsLt[now, TodaySun.sunset])
  /\ (ProperDay /\ now = TodaySun.sunrise) =>
       /\ planetaryHour.isDay
       /\ planetaryHour.hourNumber = 1
       /\ planetaryHour.currentPlanet = DAY_RULERS[GetDay(Env, now)]
  /\ (ProperDay /\ now = TodaySun.sunset) =>
       /\ ~planetaryHour.isDay
       /\ planetaryHour.hourNumber = 1

Min(a, b) == IF a < b THEN a ELSE b

\* the sunset that began the night now lies in
NightOrigin ==
  IF JsLt[now, TodaySun.sunrise] THEN YesterdaySun.sunset ELSE TodaySun.sunset

\* the weekday whose ruler opens that night
NightRulerDay ==
  IF JsLt[now, TodaySun.sunrise] THEN (GetDay(Env, now) + 6) % 7
  ELSE GetDay(Env, now)

\* whole planetary hours elapsed since the sunset that began the night
NightHoursElapsed ==
  LET elapsed == JsSub[now, NightOrigin]
  IN JsFloorDiv[elapsed, planetaryHour.hourDuration]

\* a night result whose count of elapsed hours is a number that is not negative
NightCounted ==
  /\ ~planetaryHour.isDay
  /\ IsFinite[NightHoursElapsed]
  /\ NightHoursElapsed >= 0

\* C5: before today's sunrise the ruler is that of yesterday's weekday, at or
\* after today's sunset that of today's weekday; in both the body is the one
\* 12 + n places after that ruler, n being the whole hours elapsed since the
\* sunset that began the night (part_000 limits n to 11)
C5_NightRuler ==
  /\ JsLt[now, TodaySun.sunrise] =>
       /\ ~planetaryHour.isDay
       /\ planetaryHour.rulerDay = (GetDay(Env, now) + 6) % 7
  /\ JsGe[now, TodaySun.sunset] =>
       /\ ~planetaryHour.isDay
       /\ planetaryHour.rulerDay = GetDay(Env, now)
  /\ NightCounted =>
       planetaryHour.currentPlanet =
         BodyAfterRuler(NightRulerDay,
                        12 + IF revision = "noaa"
                             THEN Min(NightHoursElapsed, 11)
                             ELSE NightHoursElapsed)

C5_Witness ==
  /\ NightCounted
  /\ JsLt[now, TodaySun.sunrise]
  /\ lastStep = "interval"
  /\ NightHoursElapsed > 0
  /\ planetaryHour.currentPlanet =
       BodyAfterRuler((GetDay(Env, now) + 6) % 7, 12 + NightHoursElapsed)

\* C6: the night hour is one twelfth of sunset-to-sunrise: tomorrow's
\* sunrise minus today's sunset at or after sunset, today's sunrise minus
\* yesterday's sunset before sunrise
C6_NightHourLength ==
  ~planetaryHour.isDay =>
    planetaryHour.hourDuration =
      IF JsLt[now, TodaySun.sunrise]
      THEN DivBy12[JsSub[TodaySun.sunrise, YesterdaySun.sunset]]
      ELSE DivBy12[JsSub[TomorrowSun.sunrise, TodaySun.sunset]]

\* C7: the result at the announced next change is ruled by the body the
\* previous result announced, and leaving hour 12 gives hour 1
C7_Continuity ==
  [][lastStep' = "nextHour" =>
       /\ planetaryHour'.currentPlanet = planetaryHour.nextPlanet
       /\ planetaryHour.hourNumber = 12 => planetaryHour'.hourNumber = 1]_vars

\* C9: the sun times of today are valid instants, and on a day of polar
\* night or polar day the hour angle is saturated at 0 or 180 degrees
C9_SunTimesTotal ==
  LET arg == AcosArgOf(Env, DayOf[now])
  IN /\ IsFinite[planetaryHour.sunrise]
     /\ IsFinite[planetaryHour.sunset]
     /\ arg > 1000000 => planetaryHour.sunset = planetaryHour.sunrise
     /\ arg < 0 - 1000000 =>
          planetaryHour.sunset - planetaryHour.sunrise = MS_PER_DAY

\* C10: the hour length used as divisor is strictly positive in every branch
C10_PositiveDivisor ==
  /\ IsFinite[planetaryHour.hourDuration]
  /\ planetaryHour.hourDuration > 0

(***************************************************************************)
(* The scenarios: sunrise 06:00 and sunset 18:00 on every day, a Sunday    *)
(***************************************************************************)
\* the time of day of now, in minutes after midnight
MinuteOfDay == (now - Midnight[now]) \div MS_PER_MINUTE

SixToSix(sun, day) ==
  /\ sun.sunrise = day * MS_PER_DAY + 360 * MS_PER_MINUTE
  /\ sun.sunset = day * MS_PER_DAY + 1080 * MS_PER_MINUTE

\* yesterday, today and tomorrow have sunrise 06:00 and sunset 18:00, and
\* today is a Sunday
EqualDaysSunday ==
  /\ SixToSix(YesterdaySun, DayOf[now] - 1)
  /\ SixToSix(TodaySun, DayOf[now])
  /\ SixToSix(TomorrowSun, DayOf[now] + 1)
  /\ GetDay(Env, now) = 0

\* C11 as stated: in the scenario, at 07:00 the body is the Sun and the hour
\* is hour 1
C11_AtSevenHourOne ==
  (EqualDaysSunday /\ MinuteOfDay = 420) =>
    /\ planetaryHour.currentPlanet = "sun"
    /\ planetaryHour.hourNumber = 1

\* C11: in the scenario the Sun rules hour 1 from 06:00 up to 07:00, and at
\* 07:00 the result is hour 2, ruled by Venus
C11_FirstHourEndsAtSeven ==
  /\ (EqualDaysSunday /\ MinuteOfDay >= 360 /\ MinuteOfDay < 420) =>
       /\ planetaryHour.currentPlanet = "sun"
       /\ planetaryHour.hourNumber = 1
       /\ planetaryHour.isDay
  /\ (EqualDaysSunday /\ MinuteOfDay = 420) =>
       /\ planetaryHour.currentPlanet = "venus"
       /\ planetaryHour.hourNumber = 2
       /\ planetaryHour.isDay

C11_Witness ==
  /\ EqualDaysSunday
  /\ MinuteOfDay = 420
  /\ lastStep = "clock"
  /\ planetaryHour.hourNumber = 2

\* C12 as stated: in the scenario, at 17:59 the hour is hour 12 and the body
\* is the Moon
C12_LastDayHourMoon ==
  (EqualDaysSunday /\ MinuteOfDay = 1079) =>
    /\ planetaryHour.hourNumber = 12
    /\ planetaryHour.currentPlanet = "moon"

\* C12: in the scenario, at 17:59 the hour is hour 12 and the body is Saturn,
\* the body eleven places after the Sun
C12_LastDayHourSaturn ==
  (EqualDaysSunday /\ MinuteOfDay = 1079) =>
    /\ planetaryHour.hourNumber = 12
    /\ planetaryHour.currentPlanet = "saturn"
    /\ planetaryHour.isDay

C12_Witness ==
  /\ EqualDaysSunday
  /\ MinuteOfDay = 1079
  /\ lastStep = "clock"
  /\ planetaryHour.hourNumber = 12

\* C13 as stated: in the scenario, at 02:00 the result is a night hour counted
\* from Saturday's ruler with offset 12, and nextHourTime is today's sunrise
C13_NextIsSunrise ==
  (EqualDaysSunday /\ MinuteOfDay = 120) =>
    /\ ~planetaryHour.isDay
    /\ planetaryHour.rulerDay = 6
    /\ planetaryHour.currentPlanet = BodyAfterRuler(6, 12 + 8)
    /\ planetaryHour.nextHourTime = TodaySun.sunrise

\* C13: in the scenario, at 02:00 the result is night hour 9 counted from
\* Saturday's ruler (Saturn) with offset 12; the night's twelfth hour ends at
\* today's sunrise, and nextHourTime is 03:00, the end of hour 9
C13_NightEndsAtSunrise ==
  (EqualDaysSunday /\ MinuteOfDay = 120) =>
    /\ ~planetaryHour.isDay
    /\ planetaryHour.rulerDay = 6
    /\ DAY_RULERS[planetaryHour.rulerDay] = "saturn"
    /\ planetaryHour.hourNumber = 9
    /\ planetaryHour.currentPlanet = BodyAfterRuler(6, 12 + 8)
    /\ YesterdaySun.sunset + 12 * planetaryHour.hourDuration = TodaySun.sunrise
    /\ planetaryHour.nextHourTime = Midnight[now] + 180 * MS_PER_MINUTE

C13_Witness ==
  /\ EqualDaysSunday
  /\ MinuteOfDay = 120
  /\ lastStep = "clock"
  /\ ~planetaryHour.isDay

\* C14: today's sunrise is strictly before today's sunset, except where the
\* hour angle is saturated: on a day of polar night sunrise = sunset, on a
\* day of polar day the span is the full 24 hours
C14_SunriseBeforeSunset ==
  LET arg == AcosArgOf(Env, DayOf[now])
  IN /\ (arg > 0 - 1000000 /\ arg < 1000000) =>
          JsLt[TodaySun.sunrise, TodaySun.sunset]
     /\ arg >= 1000000 => TodaySun.sunrise = TodaySun.sunset
     /\ arg <= 0 - 1000000 =>
          JsSub[TodaySun.sunset, TodaySun.sunrise] = MS_PER_DAY


(***************************************************************************)
(* Coordinates that reach the resolver                                     *)
(***************************************************************************)

InRange(location) ==
  /\ IsFinite[location.latitude]
  /\ IsFinite[location.longitude]
  /\ location.latitude >= 0 - 90 /\ location.latitude <= 90
  /\ location.longitude >= 0 - 180 /\ location.longitude <= 180

RangeOf(list) == {list[i] : i \in 1..Len(list)}

\* every location the application holds, in memory or in storage
KnownLocations ==
  RangeOf(currentLocation) \cup RangeOf(savedLocations)
    \cup RangeOf(storageCurrent)
    \cup (IF storageList = Null THEN {} ELSE RangeOf(storageList[1]))

FormAccepted ==
  InRange([latitude |-> parseFloat[formLatitude],
           longitude |-> parseFloat[formLongitude]])

RejectionAlerts ==
  {"Please enter valid coordinates.", "Invalid coordinate range.",
   "Please enter valid numeric coordinates.",
   "Latitude must be between -90 and 90.",
   "Longitude must be between -180 and 180."}

\* C15: every location the application holds, whatever its source, is a
\* pair of finite numbers with latitude in [-90, 90] and longitude in
\* [-180, 180], and a manual entry of text that is not such a pair raises
\* an alert and changes neither the current location, nor the saved
\* locations, nor the storage.
C15_CoordinatesInRange ==
  [][/\ \A location \in KnownLocations' : InRange(location)
     /\ (handleManualEntry /\ ~FormAccepted) =>
           /\ lastAlert' \in RejectionAlerts
           /\ UNCHANGED <<currentLocation, savedLocations, storageCurrent,
                          storageList>>]_vars

\* a rejected manual entry while a current location is shown behind it
C15_Witness ==
  /\ lastAlert = "Invalid coordinate range."
  /\ parseFloat[formLatitude] = 91
  /\ currentLocation # Null
  /\ storageCurrent = currentLocation

(***************************************************************************)
(* Effects of the core functions                                           *)
(***************************************************************************)

\* the object calculateSunTimes returns, read at its return statement
Returned == [sunrise |-> heap[frame.sunrise], sunset |-> heap[frame.sunset]]

\* C16: no statement of calculateSunTimes changes the Date object it was
\* given (sunrise and sunset are built on copies), none changes the
\* location, and none writes the storage; what it returns is the pair of
\* instants of the sun-time engine for the unchanged argument.
C16_ArgumentUntouched ==
  [][/\ pc # "idle" => heap'[frame'.date] = heap[frame.date]
     /\ pc' = "return" => Returned' = calculateSunTimes(Env, heap'[frame'.date])
     /\ UNCHANGED <<latProfile, longitude, storageCurrent, storageList>>]_vars

\* a call returning for a Date that is not a local midnight
C16_Witness ==
  /\ pc = "return"
  /\ heap[frame.date] # Midnight[heap[frame.date]]
  /\ frame.sunrise # frame.date
  /\ IsFinite[heap[frame.sunrise]]
  /\ heap[frame.sunrise] # heap[frame.date]

(***************************************************************************)
(* The last hour of a segment                                              *)
(***************************************************************************)

\* places added for a night hour
NightOffset == IF planetaryHour.isDay THEN 0 ELSE 12

\* a result whose hourNumber is a number from 1 up
Numbered ==
  /\ IsFinite[planetaryHour.hourNumber]
  /\ planetaryHour.hourNumber >= 1

\* C17: currentPlanet is the body (hourNumber - 1) + nightOffset places
\* after the ruler of the segment's weekday, hourNumber being the ordinal
\* the result returns
C17_BodyOfReturnedOrdinal ==
  Numbered =>
    planetaryHour.currentPlanet =
      BodyAfterRuler(planetaryHour.rulerDay,
                     (planetaryHour.hourNumber - 1) + NightOffset)

\* the instant the current segment began
SegmentStart ==
  IF planetaryHour.isDay THEN TodaySun.sunrise ELSE NightOrigin

\* the instant the current segment ends
SegmentEnd ==
  IF planetaryHour.isDay THEN TodaySun.sunset
  ELSE IF JsLt[now, TodaySun.sunrise] THEN TodaySun.sunrise
  ELSE TomorrowSun.sunrise

\* the ordinal before any limit: whole hours since the segment began, plus 1
RawOrdinal ==
  JsAdd[JsFloorDiv[JsSub[now, SegmentStart], planetaryHour.hourDuration], 1]

\* C18: when the ordinal before the limit is 13 or more, hourNumber is 12
\* and nextHourTime is the end of the segment: today's sunset by day,
\* today's sunrise before sunrise, tomorrow's sunrise after sunset
C18_LastHourEndsSegment ==
  (IsFinite[RawOrdinal] /\ RawOrdinal >= 13) =>
    /\ planetaryHour.hourNumber = 12
    /\ planetaryHour.nextHourTime = SegmentEnd

(***************************************************************************)
(* Julian Day numbers                                                      *)
(***************************************************************************)

\* C19: getJulianDay gives 2451545 for 2000-01-01, and along consecutive
\* calendar dates (month ends, 28 and 29 February, year ends, century
\* years) the number of the later date is the number of the earlier plus 1
C19_ConsecutiveJulianDays ==
  [][/\ calendar' = [fullYear |-> 2000, month |-> 0, date |-> 1] =>
          julianDay' = 2451545
     /\ calendar' = SetDatePlusOne(calendar) => julianDay' = julianDay + 1
     /\ calendar = SetDatePlusOne(calendar') => julianDay = julianDay' + 1]_vars

\* the first of March of 1900, reached from 28 February (no 29th that year)
C19_Witness ==
  /\ calendar = [fullYear |-> 1900, month |-> 2, date |-> 1]
  /\ julianDay = getJulianDay([fullYear |-> 1900, month |-> 1, date |-> 28]) + 1

(***************************************************************************)
(* The sun times a result carries                                          *)
(***************************************************************************)

\* C20: in every segment the sunrise and sunset fields of the result are the
\* ones computed for the calendar day of now: not yesterday's before
\* sunrise, not tomorrow's after sunset
C20_SunTimesOfToday ==
  /\ planetaryHour.sunrise = TodaySun.sunrise
  /\ planetaryHour.sunset = TodaySun.sunset

\* a result before sunrise, reached by a tick, that carries today's sunrise
\* and sunset and not yesterday's
C20_Witness ==
  /\ lastStep = "interval"
  /\ ProperDay
  /\ now < TodaySun.sunrise
  /\ IsFinite[YesterdaySun.sunset]
  /\ planetaryHour.sunrise = TodaySun.sunrise
  /\ planetaryHour.sunset # YesterdaySun.sunset

(***************************************************************************)
(* Termination of the sun-time computation                                 *)
(***************************************************************************)

\* C21: for every date the normalisation in getGeomMeanLongSun finishes,
\* and the mean longitude it returns is in [0, 360]
C21_NormalisationEnds ==
  (loopPc = "whileAbove") ~> (loopPc = "returned" /\ L0 >= 0 /\ L0 <= TURN)

\* a date before 2000 whose longitude started below zero has been normalised
C21_Witness ==
  /\ loopPc = "returned"
  /\ MeanLongitudeBeforeLoops[julianDay - 2451545] < 0 - TURN
  /\ L0 >= 0
  /\ L0 <= TURN

(***************************************************************************)
(* The polling timer                                                       *)
(***************************************************************************)

NoDuplicates(list) ==
  \A i, j \in 1..Len(list) : SamePlace(list[i], list[j]) => i = j

\* C23: savedLocations never holds two entries with the same coordinates,
\* and adding a location whose coordinates are saved already leaves the
\* list as it is and makes that location current
C23_NoDuplicateSaved ==
  [][/\ NoDuplicates(savedLocations')
     /\ \A location \in AllLocations :
          (/\ app = "saved"
           /\ AddLocationShown
           /\ Exists(savedLocations, location)
           /\ Deliver(location)) =>
            /\ savedLocations' = savedLocations
            /\ currentLocation' = <<location>>]_vars

\* two saved locations, the first of them made current again from the
\* add-location screen
C23_Witness ==
  /\ Len(savedLocations) = 2
  /\ NoDuplicates(savedLocations)
  /\ currentLocation = <<savedLocations[1]>>
  /\ lastAlert = "none"
  /\ HoursShown

Quiet == pending = <<>> /\ dialog = <<>> /\ ~appLoading

RangeOfList(list) == {list[i] : i \in 1..Len(list)}

\* C27: once overlapping handlers have all finished, savedLocations and the
\* stored list hold every location that was added and not deleted since
C27_NoLostUpdate ==
  (Quiet /\ app = "saved") =>
    /\ RangeOfList(savedLocations) = requested
    /\ storageList # <<>> => RangeOfList(storageList[1]) = requested

(***************************************************************************)
(* The launch                                                              *)
(***************************************************************************)

\* the loading flag becomes false whatever the reads meet
C28_LoadingEnds == appLoading ~> ~appLoading

\* a load that met a fault leaves the state at its initial empty values
C28_FaultLeavesInitial ==
  [][(appLoading /\ ~appLoading' /\ fault # "none") =>
       (currentLocation' = Null /\ savedLocations' = <<>>)]_vars

\* C28: on startup the loading flag eventually becomes false on every path,
\* and a read that fails or a text that is not valid JSON leaves the state at
\* its initial empty values
C28_StartupLoad == C28_LoadingEnds /\ C28_FaultLeavesInitial

(***************************************************************************)
(* handleGPSLocation                                                       *)
(***************************************************************************)

\* the handler has ended with the flag false; it has reported at most
\* once, and exactly when it succeeded; after a rejected reverse geocoding
\* the reported name is the formatted coordinates
GpsOutcome ==
  /\ GpsEnded => ~gpsLoading
  /\ gpsReports <= 1
  /\ gpsReports = 1 <=> gpsPc = "succeeded"
  /\ (gpsPc = "succeeded" /\ gpsGeocode = "rejected") =>
       gpsName = FormattedCoordinates(gpsPosition[1])

\* when reverseGeocodeAsync settles the handler goes on to report (or, in
\* "single", to store and then report), however it settled
GeocodeNeverFails ==
  gpsPc = "geocode" => gpsPc' \in {"geocode", "store", "succeeded"}

\* C29: handleGPSLocation ends with the loading flag false on every path; it
\* reports a location at most once, and only when it succeeded; when only
\* reverse geocoding failed the location is still reported, named by its
\* formatted coordinates
C29_GpsLocation == []GpsOutcome /\ [][GeocodeNeverFails]_vars

\* reverse geocoding was rejected and the handler has ended: the location
\* was reported once under the name "-34.0000, 151.0000"
C29_Witness ==
  /\ gpsPc = "succeeded"
  /\ gpsGeocode = "rejected"
  /\ gpsReports = 1
  /\ ~gpsLoading
  /\ gpsName = "-34.0000, 151.0000"
  /\ currentLocation = gpsPosition

(***************************************************************************)
(* The routing                                                             *)
(***************************************************************************)

\* the hours screen is displayed only with the data loaded, no request for
\* the add-location screen, and a location; without a location the
\* add-location screen is displayed
RoutedByLocation ==
  /\ HoursShown =>
       ~appLoading /\ ~showAddLocation /\ currentLocation # Null
  /\ (~appLoading /\ currentLocation = Null) => AddLocationShown

\* C30: the planetary hours screen is displayed only when loading is false,
\* showAddLocation is false and currentLocation is not null; with no current
\* location the add-location screen is displayed and its cancel changes no
\* state
C30_Routing ==
  /\ []RoutedByLocation
  /\ [][onCancelWithoutLocation => UNCHANGED vars]_vars

\* the only saved location was deleted: the add-location screen is displayed
\* again, the one whose cancel does nothing
C30_Witness ==
  /\ app = "saved"
  /\ ~appLoading
  /\ ~showAddLocation
  /\ currentLocation = Null
  /\ storageList = <<<<>>>>
  /\ AddLocationShown
  /\ ~HoursShown

====
